---- MODULE Spec2Model ----
(***************************************************************************)
(* Keypop Calypso Crypto Symmetric C++ API.                                *)
(*                                                                         *)
(* The library is header only (src/include/CMakeLists.txt:12-16): the SPI  *)
(* classes declare pure virtual methods and carry no bodies.  The code     *)
(* that executes in this repository is the API version constant and the    *)
(* unit test that matches it against the pattern \d+\.\d+.  This module    *)
(* models that test: the version string, the construction of the regular   *)
(* expression from its pattern text, std::regex_match over the whole       *)
(* string, and the assertion on the result.                                *)
(*                                                                         *)
(* A string is a sequence of one-character strings, so that matching is    *)
(* computed character by character and not by comparing whole strings.     *)
(*                                                                         *)
(* The second part models the two constructors of                          *)
(* SymmetricCryptoIOException, the only other bodies in the repository.    *)
(***************************************************************************)
EXTENDS Naturals, Sequences, FiniteSets

(* Longest candidate string the matcher is applied to. *)
MaxLen == 3

(* Characters the candidate strings are built from: digits, the dot, and   *)
(* a character that is neither (it is also the letter of the \d escape).   *)
Alphabet == {"0", "1", "9", ".", "d"}

(* The characters \d matches for char strings in the default locale. *)
Digit == {"0", "1", "2", "3", "4", "5", "6", "7", "8", "9"}

(* static const std::string& SymmetricCryptoApiProperties_VERSION = "0.1" *)
SymmetricCryptoApiProperties_VERSION == <<"0", ".", "1">>

(* The pattern text with the dot left unescaped: \d+.\d+ *)
PatternTextUnescapedDot == <<"\\", "d", "+", ".", "\\", "d", "+">>

(* The text handed to the std::regex constructor.  The C++ literal         *)
(* "\\d+\\.\\d+" denotes the eight characters \d+\.\d+                     *)
PatternText == <<"\\", "d", "+", "\\", ".", "\\", "d", "+">>

(* Every string over Alphabet of length at most n. *)
RECURSIVE StringsUpTo(_)
StringsUpTo(n) ==
    IF n = 0 THEN {<<>>}
    ELSE LET shorter == StringsUpTo(n - 1)
         IN  shorter \cup {Append(s, c) : s \in shorter, c \in Alphabet}

(* The strings the test body is run on: the exposed version and every      *)
(* candidate up to MaxLen.                                                 *)
Inputs == {SymmetricCryptoApiProperties_VERSION} \cup StringsUpTo(MaxLen)

(* One atom of a compiled pattern: a character class or a literal,         *)
(* possibly quantified by +.                                               *)
Atom(kind, ch, plus) == [kind |-> kind, ch |-> ch, plus |-> plus]

(* The part of a pattern text that follows its first atom (quantifier      *)
(* excluded): two characters for an escape, one otherwise.                 *)
AfterAtom(p) == IF Head(p) = "\\" /\ Len(p) >= 2 THEN SubSeq(p, 3, Len(p))
                ELSE Tail(p)

(* The first atom of a pattern text, ECMAScript grammar: \d is the digit   *)
(* class, \c for another c is the literal c, a bare dot is any character,  *)
(* anything else is itself.                                                *)
FirstAtom(p) ==
    LET rest == AfterAtom(p)
        plus == rest # <<>> /\ Head(rest) = "+"
    IN  IF Head(p) = "\\" /\ Len(p) >= 2
        THEN IF p[2] = "d" THEN Atom("digit", "", plus)
             ELSE Atom("lit", p[2], plus)
        ELSE IF Head(p) = "." THEN Atom("any", "", plus)
        ELSE Atom("lit", Head(p), plus)

(* std::regex r(text): the sequence of atoms of the pattern text. *)
RECURSIVE Compile(_)
Compile(p) ==
    IF p = <<>> THEN <<>>
    ELSE LET a == FirstAtom(p)
             rest == AfterAtom(p)
         IN  <<a>> \o Compile(IF a.plus THEN Tail(rest) ELSE rest)

(* Whether one character is accepted by one atom. *)
AtomMatches(a, c) ==
    CASE a.kind = "digit" -> c \in Digit
      [] a.kind = "any"   -> TRUE
      [] OTHER            -> c = a.ch

(* Backtracking match of the atoms against the whole of s: every           *)
(* character is consumed and every atom is used.                           *)
RECURSIVE MatchHere(_, _)
MatchHere(s, atoms) ==
    IF atoms = <<>> THEN s = <<>>
    ELSE IF s = <<>> THEN FALSE
    ELSE LET a == Head(atoms)
         IN  /\ AtomMatches(a, Head(s))
             /\ \/ MatchHere(Tail(s), Tail(atoms))
                \/ a.plus /\ MatchHere(Tail(s), atoms)

(* std::regex_match(s, r): true iff the entire string matches. *)
regex_match(s, atoms) == MatchHere(s, atoms)

VARIABLES
    pc,          \* position in the test body
    apiVersion,  \* the string under test
    r,           \* the compiled regular expression, <<>> before construction
    matched,     \* the value regex_match returned
    pcIO,        \* "idle", "constructed", or "terminated" (construction failed)
    ctor,        \* which SymmetricCryptoIOException constructor ran
    argMessage,  \* the message argument
    argCause,    \* the cause argument
    exc          \* the constructed SymmetricCryptoIOException object

testVars == <<pc, apiVersion, r, matched>>
ioVars == <<pcIO, ctor, argMessage, argCause, exc>>
vars == <<pc, apiVersion, r, matched, pcIO, ctor, argMessage, argCause, exc>>

(* How many distinct message texts the constructors are called with. *)
NumMessages == 5

(* A message text. *)
Messages == {<<"msg", i>> : i \in 1..NumMessages}

(* What what() returns for an exception that stores no text of its own;    *)
(* the text is the implementation's.                                       *)
DefaultWhat == <<"std::exception", 0>>

(* An empty std::shared_ptr<std::exception>. *)
NullCause == [type |-> "nullptr", what |-> <<"", 0>>]

(* The exceptions a cause may point to: a plain std::exception, or one of  *)
(* its standard subclasses constructed with a message text.                *)
Causes ==
    {[type |-> "std::exception", what |-> DefaultWhat]}
        \cup {[type |-> t, what |-> m] :
                 t \in {"std::runtime_error", "std::logic_error"}, m \in Messages}

(* The value of the variables before any constructor has run. *)
NoMessage == <<"", 0>>
NoObject == [what |-> NoMessage]

(* No SymmetricCryptoIOException has been constructed. *)
IOIdle ==
    /\ pcIO = "idle"
    /\ ctor = "none"
    /\ argMessage = NoMessage
    /\ argCause = NullCause
    /\ exc = NoObject

TypeOK ==
    /\ pc \in {"start", "regex", "matched", "passed", "failed"}
    /\ apiVersion \in Inputs
    /\ matched \in BOOLEAN

(* const std::string& apiVersion = ...; *)
Init ==
    /\ pc = "start"
    /\ apiVersion \in Inputs
    /\ r = <<>>
    /\ matched = FALSE
    /\ IOIdle

(* const std::regex r("\\d+\\.\\d+"); *)
ConstructRegex ==
    /\ pc = "start"
    /\ r' = Compile(PatternText)
    /\ pc' = "regex"
    /\ UNCHANGED <<apiVersion, matched>>
    /\ UNCHANGED ioVars

(* std::regex_match(apiVersion, r) *)
RegexMatch ==
    /\ pc = "regex"
    /\ matched' = regex_match(apiVersion, r)
    /\ pc' = "matched"
    /\ UNCHANGED <<apiVersion, r>>
    /\ UNCHANGED ioVars

(* ASSERT_TRUE(...) *)
AssertTrue ==
    /\ pc = "matched"
    /\ pc' = IF matched THEN "passed" ELSE "failed"
    /\ UNCHANGED <<apiVersion, r, matched>>
    /\ UNCHANGED ioVars

Next == ConstructRegex \/ RegexMatch \/ AssertTrue

Spec == Init /\ [][Next]_vars

----
(* SymmetricCryptoIOException.                                             *)

(* The object a constructor leaves behind.  The class declares no data     *)
(* member: the object is its std::exception base subobject, of which only  *)
(* what() is observable.                                                   *)
ExceptionObject(w) == [what |-> w]

(* The texts what() of a std::exception copy-constructed from e may        *)
(* return.  The copy has static type std::exception: when e is a plain     *)
(* std::exception the copy reports the same text; when e is of a derived   *)
(* type the copy is sliced and the text is the implementation's choice     *)
(* between its default and the text of e.                                  *)
CopiedWhat(e) ==
    IF e.type = "std::exception" THEN {e.what} ELSE {DefaultWhat, e.what}

(* explicit SymmetricCryptoIOException(const std::string& message)         *)
(*   : std::exception() { (void)message; }                                 *)
ConstructFromMessage(message) ==
    /\ pcIO = "idle"
    /\ ctor' = "message"
    /\ argMessage' = message
    /\ argCause' = NullCause
    /\ exc' = ExceptionObject(DefaultWhat)
    /\ pcIO' = "constructed"
    /\ UNCHANGED testVars

(* SymmetricCryptoIOException(const std::string& message,                  *)
(*     const std::shared_ptr<std::exception> cause)                        *)
(* The base is initialised as a std::exception copy of the object cause    *)
(* points to; the body is (void)message.                                   *)
(* Dereferencing an empty shared_ptr is undefined: the construction either *)
(* terminates the program or goes on with a base of unknown content.       *)
ConstructFromMessageAndCause(message, cause) ==
    /\ pcIO = "idle"
    /\ ctor' = "messageAndCause"
    /\ argMessage' = message
    /\ argCause' = cause
    /\ IF cause = NullCause
       THEN \/ pcIO' = "terminated" /\ exc' = NoObject
            \/ pcIO' = "constructed" /\ exc' = ExceptionObject(DefaultWhat)
       ELSE /\ pcIO' = "constructed"
            /\ \E w \in CopiedWhat(cause) : exc' = ExceptionObject(w)
    /\ UNCHANGED testVars

(* The cause an exception object carries: the value of its cause member,   *)
(* none when the object has no such member.                                *)
getCause(e) == IF "cause" \in DOMAIN e THEN e.cause ELSE NullCause

InitIO ==
    /\ pc = "start"
    /\ apiVersion = SymmetricCryptoApiProperties_VERSION
    /\ r = <<>>
    /\ matched = FALSE
    /\ IOIdle

NextIO ==
    \/ \E m \in Messages : ConstructFromMessage(m)
    \/ \E m \in Messages, c \in Causes \cup {NullCause} :
           ConstructFromMessageAndCause(m, c)

SpecIO == InitIO /\ [][NextIO]_vars

----
(* The form <major>.<minor>, stated on the string itself.                  *)

DotCount(s) == Cardinality({i \in 1..Len(s) : s[i] = "."})

(* A segment is a digit segment when it is one or more decimal digits. *)
IsDigitSegment(seg) == seg # <<>> /\ \A i \in 1..Len(seg) : seg[i] \in Digit

(* The segments of a string with exactly one dot. *)
DotAt(s) == CHOOSE i \in 1..Len(s) : s[i] = "."
Major(s) == SubSeq(s, 1, DotAt(s) - 1)
Minor(s) == SubSeq(s, DotAt(s) + 1, Len(s))

HasNonDigitSegment(s) ==
    DotCount(s) = 1 /\ ~(IsDigitSegment(Major(s)) /\ IsDigitSegment(Minor(s)))

Matched == pc \in {"matched", "passed", "failed"}

(* C9: the exposed version string matches \d+\.\d+ as a whole, so the test *)
(* passes on it, and a string without exactly one dot, or with a segment   *)
(* that is not one or more decimal digits, does not match.                 *)
C9_VersionMatchesMajorMinor ==
    /\ (Matched /\ apiVersion = SymmetricCryptoApiProperties_VERSION) => matched
    /\ (pc = "failed") => apiVersion # SymmetricCryptoApiProperties_VERSION
    /\ (Matched /\ (DotCount(apiVersion) # 1 \/ HasNonDigitSegment(apiVersion)))
           => ~matched

(* C9 witness: the test has run on the exposed version, which has one dot  *)
(* between two digit segments, and passed.                                 *)
C9_Witness ==
    /\ pc = "passed"
    /\ apiVersion = SymmetricCryptoApiProperties_VERSION
    /\ DotCount(apiVersion) = 1
    /\ ~HasNonDigitSegment(apiVersion)
    /\ matched

(* A candidate with a non-digit segment went through the matcher and was   *)
(* rejected.                                                               *)
RejectedNonDigit ==
    /\ pc = "failed"
    /\ apiVersion = <<"0", ".", "d">>
    /\ ~matched

----
(* C13: an IO failure built from a message and a cause carries that cause  *)
(* and its identifying message, one built from a message alone carries no  *)
(* cause, and constructing either form never fails.                        *)
C13_CauseEncapsulated ==
    /\ pcIO # "terminated"
    /\ (pcIO = "constructed" /\ ctor = "messageAndCause")
           => /\ getCause(exc) = argCause
              /\ exc.what \in {argMessage, argCause.what}
    /\ (pcIO = "constructed" /\ ctor = "message")
           => getCause(exc) = NullCause

(* The part of C13 the constructors do satisfy: the message-only form      *)
(* carries no cause and always completes.                                  *)
MessageOnlyHasNoCause ==
    ctor = "message" => pcIO = "constructed" /\ getCause(exc) = NullCause

(* A cause was supplied, the constructor completed, and the object holds   *)
(* neither the cause nor any of the two texts.                             *)
CauseDropped ==
    /\ pcIO = "constructed"
    /\ ctor = "messageAndCause"
    /\ argCause \in Causes
    /\ argCause.type = "std::runtime_error"
    /\ getCause(exc) = NullCause
    /\ exc.what = DefaultWhat
====
